---- MODULE Spec2Model ----
(***************************************************************************)
(* A model of buoycam_fetcher.py: the rate limiter gate, the observation   *)
(* table parser, the request generator, the image task and the two-phase   *)
(* orchestrator (main).                                                    *)
(*                                                                         *)
(* Python strings are sequences of one-character strings, so that find,    *)
(* split, slicing, int() and strftime are computed and not assumed.        *)
(* A call's outcome is a record: Return(v), ReturnNone or Raise(e).        *)
(***************************************************************************)
EXTENDS Integers, Sequences, FiniteSets, TLC

VARIABLES
    \* ---- main (the orchestrator) ----
    mainpc,             \* where main is
    mainExc,            \* the exception that ended main, or "none"
    buoy_cam_list,      \* the directory listing (get_json's result)
    hours,              \* args.hours
    obsTasks,           \* phase 1 futures: index in buoy_cam_list -> task
    buoy_data_lookup,   \* station id -> BuoyData
    image_requests,     \* generate_requests' result
    filtered_requests,  \* the requests handed to phase 2
    imgTasks,           \* phase 2 futures: index in filtered_requests -> task
    results,            \* joined (request index, result) pairs
    lock,               \* request_rate_limit_lock: its holder, or Free
    \* ---- the gate under a clock ----
    now,                \* the time, in ticks of 1/MAX_REQUESTS_PER_SECOND s
    gRemaining,         \* workers that have not passed the gate yet
    gHolder,            \* TRUE while a worker holds the lock (it sleeps)
    gWake,              \* the earliest time the holder's sleep may end
    gPassTimes,         \* the times of the passes of the last second
    gPassed,            \* how many workers passed so far
    gSlack,             \* ticks spent with the gate idle or oversleeping
    \* ---- one call of a function on drawn arguments ----
    callIn,             \* the arguments
    callOut,            \* the outcome, or Pending
    \* ---- the output directory tree ----
    dirs,               \* the directories that exist
    files,              \* path -> content of the files that exist
    writes,             \* <<task, path>>: the task has written the path
    calls               \* <<task, name>>: the task has called split_image or the OCR

vars == <<mainpc, mainExc, buoy_cam_list, hours, obsTasks, buoy_data_lookup,
          image_requests, filtered_requests, imgTasks, results, lock,
          now, gRemaining, gHolder, gWake, gPassTimes, gPassed, gSlack,
          callIn, callOut, dirs, files, writes, calls>>

mainVars == <<mainpc, mainExc, buoy_cam_list, hours, obsTasks, buoy_data_lookup,
              image_requests, filtered_requests, imgTasks, results, lock>>
gateVars == <<now, gRemaining, gHolder, gWake, gPassTimes, gPassed, gSlack>>
callVars == <<callIn, callOut>>
diskVars == <<dirs, files, writes, calls>>

----------------------------------------------------------------------------
(* Outcomes of a call *)

Return(v) == [tag |-> "return", val |-> v]
ReturnNone == [tag |-> "none"]
Raise(e) == [tag |-> "raise", exc |-> e]
Pending == [tag |-> "pending"]

\* a JSON value of the directory listing: a string, a number or null
JStr(s) == [json |-> "str", s |-> s]
JNum(mant, scale) == [json |-> "num", mant |-> mant, scale |-> scale]
JNull == [json |-> "null"]

Range(s) == {s[i] : i \in DOMAIN s}
MinOf(S) == CHOOSE x \in S : \A y \in S : x <= y
MaxOf(S) == CHOOSE x \in S : \A y \in S : x >= y

\* d[key] = value
dict_set(d, key, value) ==
    [k \in DOMAIN d \cup {key} |-> IF k = key THEN value ELSE d[k]]

----------------------------------------------------------------------------
(* Python str operations on sequences of characters *)

DigitChars == <<"0", "1", "2", "3", "4", "5", "6", "7", "8", "9">>
IsDigit(c) == c \in Range(DigitChars)
DigitVal(c) == (CHOOSE i \in DOMAIN DigitChars : DigitChars[i] = c) - 1
Whitespace == {" ", "\t", "\r", "\n"}

\* s.find(sub): the 0-based index of the first occurrence, -1 when there is none
str_find(s, sub) ==
    LET hits == {i \in 0..(Len(s) - Len(sub)) : SubSeq(s, i + 1, i + Len(sub)) = sub}
    IN  IF hits = {} THEN -1 ELSE MinOf(hits)

\* s[a:b] for a, b >= 0 (the bounds are clamped to the string)
str_slice(s, a, b) == SubSeq(s, a + 1, IF b < Len(s) THEN b ELSE Len(s))

\* s[a:]
str_from(s, a) == SubSeq(s, a + 1, Len(s))

\* s.split(c) for a one-character separator: always at least one piece
RECURSIVE str_split(_, _)
str_split(s, c) ==
    LET i == str_find(s, <<c>>)
    IN  IF i = -1 THEN <<s>>
        ELSE <<str_slice(s, 0, i)>> \o str_split(str_from(s, i + 1), c)

\* s.split(): the maximal runs of non-whitespace characters
RECURSIVE str_split_ws(_)
str_split_ws(s) ==
    IF s = <<>> THEN <<>>
    ELSE IF s[1] \in Whitespace THEN str_split_ws(Tail(s))
    ELSE LET stops == {i \in 1..Len(s) : s[i] \in Whitespace}
             n == IF stops = {} THEN Len(s) ELSE MinOf(stops) - 1
         IN  <<SubSeq(s, 1, n)>> \o str_split_ws(str_from(s, n))

\* the value of a non-empty string of decimal digits
RECURSIVE DigitsVal(_)
DigitsVal(s) == IF s = <<>> THEN 0 ELSE 10 * DigitsVal(SubSeq(s, 1, Len(s) - 1)) + DigitVal(s[Len(s)])

AllDigits(s) == s # <<>> /\ \A i \in DOMAIN s : IsDigit(s[i])

\* int(s) for the strings of the model: decimal digits, anything else is a ValueError
py_int(s) == IF AllDigits(s) THEN Return(DigitsVal(s)) ELSE Raise("ValueError")

\* float(s) for the strings of the model: [+-]digits[.digits], kept exactly as
\* mant / 10^scale; anything else is a ValueError
py_float(s) ==
    LET neg == s # <<>> /\ s[1] = "-"
        body == IF s # <<>> /\ s[1] \in {"-", "+"} THEN Tail(s) ELSE s
        dot == str_find(body, <<".">>)
        int_part == IF dot = -1 THEN body ELSE str_slice(body, 0, dot)
        frac == IF dot = -1 THEN <<>> ELSE str_from(body, dot + 1)
        digits == int_part \o frac
    IN  IF AllDigits(digits)
        THEN Return([mant |-> (IF neg THEN -1 ELSE 1) * DigitsVal(digits), scale |-> Len(frac)])
        ELSE Raise("ValueError")

\* n >= 0 as decimal digits
RECURSIVE NatDigits(_)
NatDigits(n) ==
    IF n < 10 THEN <<DigitChars[n + 1]>>
    ELSE NatDigits(n \div 10) \o <<DigitChars[(n % 10) + 1]>>

\* the characters of s as one string
RECURSIVE str_of(_)
str_of(s) == IF s = <<>> THEN "" ELSE s[1] \o str_of(Tail(s))

\* n zero-padded to at least w characters (strftime's %Y %m %d %H %M)
ZeroPad(n, w) ==
    LET d == NatDigits(n)
    IN  [i \in 1..(IF Len(d) < w THEN w - Len(d) ELSE 0) |-> "0"] \o d

----------------------------------------------------------------------------
(* The observation table: extract_table_data, get_float, Observation *)

MISSING_DATA_INDICATOR == <<"M", "M">>

K_YY == <<"Y", "Y">>
K_MM == <<"M", "M">>
K_DD == <<"D", "D">>
K_hh == <<"h", "h">>
K_mm == <<"m", "m">>
K_WSPD == <<"W", "S", "P", "D">>
K_WDIR == <<"W", "D", "I", "R">>
K_GST == <<"G", "S", "T">>
K_WVHT == <<"W", "V", "H", "T">>
K_DPD == <<"D", "P", "D">>
K_APD == <<"A", "P", "D">>
K_MWD == <<"M", "W", "D">>
K_PRES == <<"P", "R", "E", "S">>
K_ATMP == <<"A", "T", "M", "P">>
K_WTMP == <<"W", "T", "M", "P">>
K_DEWP == <<"D", "E", "W", "P">>
K_VIS == <<"V", "I", "S">>
K_PTDY == <<"P", "T", "D", "Y">>
K_TIDE == <<"T", "I", "D", "E">>

\* the HTTP responses of requests.get(url, timeout=10): a reply, or an exception
HttpReply(status, body) == [exc |-> "none", status_code |-> status, body |-> body]
HttpRaise(e) == [exc |-> e]

\* one data row: header token -> the value at its position (a repeated header
\* token keeps its last position); a row shorter than the header is an IndexError
table_entry(header, values) ==
    IF Len(values) < Len(header) THEN Raise("IndexError")
    ELSE Return([h \in Range(header) |->
                    values[MaxOf({i \in DOMAIN header : header[i] = h})]])

\* the loop over the rows (lines 151-159): rows with no token are skipped, the
\* first row that raises ends the call
RECURSIVE table_rows(_, _, _)
table_rows(header, rows, acc) ==
    IF rows = <<>> THEN Return(acc)
    ELSE LET values == str_split_ws(Head(rows))
         IN  IF Len(values) = 0 THEN table_rows(header, Tail(rows), acc)
             ELSE LET e == table_entry(header, values)
                  IN  IF e.tag = "raise" THEN e
                      ELSE table_rows(header, Tail(rows), Append(acc, e.val))

extract_table_data(response) ==
    IF response.exc # "none" THEN Raise(response.exc)
    ELSE IF response.status_code # 200 THEN ReturnNone
    ELSE LET lines == str_split(response.body, "\n")
         IN  IF Len(lines) < 3 THEN Raise("ValueError")
             ELSE table_rows(str_split_ws(str_from(lines[1], 1)), str_from(lines, 2), <<>>)

mps_to_kts(x) == [mant |-> x.mant * 194384, scale |-> x.scale + 5]
nmi_to_m(x) == [mant |-> x.mant * 1852, scale |-> x.scale]
convert(func, x) ==
    CASE func = "mps_to_kts" -> mps_to_kts(x)
      [] func = "nmi_to_m" -> nmi_to_m(x)
      [] OTHER -> x

get_float(row, key, convert_func) ==
    IF key \notin DOMAIN row THEN ReturnNone
    ELSE IF row[key] = MISSING_DATA_INDICATOR THEN ReturnNone
    ELSE LET f == py_float(row[key])
         IN  IF f.tag = "raise" THEN f ELSE Return(convert(convert_func, f.val))

\* the fields of an Observation, in the order table_row_to_observation reads them
ObservationFields == <<
    [name |-> "wind_speed_kts", key |-> K_WSPD, conv |-> "mps_to_kts"],
    [name |-> "wind_direction_deg", key |-> K_WDIR, conv |-> "none"],
    [name |-> "gust_speed_kts", key |-> K_GST, conv |-> "mps_to_kts"],
    [name |-> "wave_height_m", key |-> K_WVHT, conv |-> "none"],
    [name |-> "dominant_wave_period_s", key |-> K_DPD, conv |-> "none"],
    [name |-> "average_wave_period_s", key |-> K_APD, conv |-> "none"],
    [name |-> "mean_wave_direction_deg", key |-> K_MWD, conv |-> "none"],
    [name |-> "atmospheric_pressure_hpa", key |-> K_PRES, conv |-> "none"],
    [name |-> "air_temperature_c", key |-> K_ATMP, conv |-> "none"],
    [name |-> "water_temperature_c", key |-> K_WTMP, conv |-> "none"],
    [name |-> "dewpoint_temperature_c", key |-> K_DEWP, conv |-> "none"],
    [name |-> "visibility_m", key |-> K_VIS, conv |-> "nmi_to_m"],
    [name |-> "pressure_tendency_hpa", key |-> K_PTDY, conv |-> "none"],
    [name |-> "tide_m", key |-> K_TIDE, conv |-> "none"] >>

row_timestamp(row) ==
    row[K_YY] \o <<"_">> \o row[K_MM] \o <<"_">> \o row[K_DD] \o <<"_">> \o row[K_hh] \o row[K_mm]

table_row_to_observation(row) ==
    IF \E k \in {K_YY, K_MM, K_DD, K_hh, K_mm} : k \notin DOMAIN row THEN ReturnNone
    ELSE LET got == [i \in DOMAIN ObservationFields |->
                        get_float(row, ObservationFields[i].key, ObservationFields[i].conv)]
             bad == {i \in DOMAIN got : got[i].tag = "raise"}
         IN  IF bad # {} THEN got[MinOf(bad)]
             ELSE Return([timestamp |-> row_timestamp(row),
                          fields |-> [i \in DOMAIN got |-> got[i]]])

BuoyData(station_id) ==
    [id |-> station_id, observations |-> <<>>, lat_deg |-> ReturnNone,
     lon_deg |-> ReturnNone, description |-> JStr("")]

\* observations is a dict: here the sequence of its (key, value) items, keys unique
obs_keys(data) == {data.observations[i].timestamp : i \in DOMAIN data.observations}

add_observation(data, observation) ==
    LET old == {i \in DOMAIN data.observations :
                    data.observations[i].timestamp = observation.timestamp}
    IN  [data EXCEPT !.observations =
            IF old = {} THEN Append(@, observation)
            ELSE [@ EXCEPT ![CHOOSE i \in old : TRUE] = observation]]

\* as has_observation, but content with a store that holds any observation
has_observation_of_any_time(data, timestamp) == data.observations # <<>>

has_observation(data, timestamp) == timestamp \in obs_keys(data)

\* get_observation (lines 293-296): self.observations[timestamp] when
\* has_observation says the key is there, else None
get_observation(data, timestamp) ==
    LET hits == {i \in DOMAIN data.observations :
                    data.observations[i].timestamp = timestamp}
    IN  IF ~has_observation(data, timestamp) THEN ReturnNone
        ELSE IF hits = {} THEN Raise("KeyError")
        ELSE Return(data.observations[CHOOSE i \in hits : TRUE])

\* the loop of get_observation_data over the parsed rows (lines 333-338)
RECURSIVE add_rows(_, _)
add_rows(data, rows) ==
    IF rows = <<>> THEN Return(data)
    ELSE LET o == table_row_to_observation(Head(rows))
         IN  IF o.tag = "raise" THEN o
             ELSE IF o.tag = "none" THEN add_rows(data, Tail(rows))
             ELSE add_rows(add_observation(data, o.val), Tail(rows))

\* get_observation_data after the gate: the fetch, the parse and the store
get_observation_data(station_id, response) ==
    LET observation_data == extract_table_data(response)
    IN  IF observation_data.tag = "raise" THEN observation_data
        ELSE IF observation_data.tag = "none" THEN ReturnNone
        ELSE add_rows(BuoyData(station_id), observation_data.val)

----------------------------------------------------------------------------
(* datetime: the proleptic Gregorian calendar, to the minute *)

IsLeap(y) == y % 4 = 0 /\ (y % 100 # 0 \/ y % 400 = 0)

DaysInMonth(y, m) ==
    IF m = 2 THEN (IF IsLeap(y) THEN 29 ELSE 28)
    ELSE IF m \in {4, 6, 9, 11} THEN 30 ELSE 31

RECURSIVE DaysBeforeMonth(_, _)
DaysBeforeMonth(y, m) == IF m = 1 THEN 0 ELSE DaysBeforeMonth(y, m - 1) + DaysInMonth(y, m - 1)

DaysBeforeYear(y) == (y - 1) * 365 + (y - 1) \div 4 - (y - 1) \div 100 + (y - 1) \div 400

ymd2ord(y, m, d) == DaysBeforeYear(y) + DaysBeforeMonth(y, m) + d

ord2ymd(ordinal) ==
    LET n == ordinal - 1
        n400 == n \div 146097
        r400 == n % 146097
        n100 == r400 \div 36524
        r100 == r400 % 36524
        n4 == r100 \div 1461
        r4 == r100 % 1461
        n1 == r4 \div 365
        r1 == r4 % 365
        y == n400 * 400 + n100 * 100 + n4 * 4 + n1 + 1
    IN  IF n1 = 4 \/ n100 = 4 THEN [year |-> y - 1, month |-> 12, day |-> 31]
        ELSE LET m == CHOOSE k \in 1..12 :
                        /\ DaysBeforeMonth(y, k) <= r1
                        /\ r1 < DaysBeforeMonth(y, k) + DaysInMonth(y, k)
             IN  [year |-> y, month |-> m, day |-> r1 - DaysBeforeMonth(y, m) + 1]

\* datetime.datetime(year, month, day, hour, minute, tzinfo=utc)
datetime(year, month, day, hour, minute) ==
    IF /\ year \in 1..9999 /\ month \in 1..12
       /\ day >= 1 /\ day <= DaysInMonth(year, month)
       /\ hour \in 0..23 /\ minute \in 0..59
    THEN Return([year |-> year, month |-> month, day |-> day, hour |-> hour, minute |-> minute])
    ELSE Raise("ValueError")

\* date - datetime.timedelta(minutes=minutes)
datetime_minus(date, minutes) ==
    LET total == (ymd2ord(date.year, date.month, date.day) * 1440
                    + date.hour * 60 + date.minute) - minutes
        ordinal == total \div 1440
        ymd == ord2ymd(ordinal)
    IN  IF ordinal < 1 \/ ordinal > ymd2ord(9999, 12, 31) THEN Raise("OverflowError")
        ELSE Return([year |-> ymd.year, month |-> ymd.month, day |-> ymd.day,
                     hour |-> (total % 1440) \div 60, minute |-> total % 60])

\* date.strftime("%Y_%m_%d_%H%M")
strftime(date) ==
    ZeroPad(date.year, 4) \o <<"_">> \o ZeroPad(date.month, 2) \o <<"_">>
        \o ZeroPad(date.day, 2) \o <<"_">> \o ZeroPad(date.hour, 2) \o ZeroPad(date.minute, 2)

----------------------------------------------------------------------------
(* BuoyImageRequest and generate_requests *)

DotJpg == <<".", "j", "p", "g">>

BuoyImageRequest(station_id, station_tag, desciption, date, output_dir) ==
    [id |-> station_id, tag |-> station_tag, description |-> desciption,
     date |-> date, output_root_dir |-> output_dir]

date_string(request) == strftime(request.date)

extract_date_string(filename) ==
    LET start_index == str_find(filename, <<"_">>) + 1
        end_index == str_find(filename, DotJpg)
    IN  IF start_index = -1 THEN ReturnNone
        ELSE IF end_index = -1 THEN ReturnNone
        ELSE Return(str_slice(filename, start_index, end_index))

date_string_to_date(ds) ==
    IF Len(ds) # 15 THEN ReturnNone
    ELSE LET parts == <<py_int(str_slice(ds, 0, 4)), py_int(str_slice(ds, 5, 7)),
                        py_int(str_slice(ds, 8, 10)), py_int(str_slice(ds, 11, 13)),
                        py_int(str_slice(ds, 13, 15))>>
             bad == {i \in DOMAIN parts : parts[i].tag = "raise"}
         IN  IF bad # {} THEN parts[MinOf(bad)]
             ELSE datetime(parts[1].val, parts[2].val, parts[3].val, parts[4].val, parts[5].val)

\* as image_dates, but starting one step before the latest image
image_dates_skip_latest(latest_img_date, hours_in_past) ==
    [k \in 1..(hours_in_past * 6) |-> datetime_minus(latest_img_date, 10 * k)]

\* image_dates (lines 506-508): latest - 10 minutes * i for i in range(hours * 6)
image_dates(latest_img_date, hours_in_past) ==
    [k \in 1..(hours_in_past * 6) |-> datetime_minus(latest_img_date, 10 * (k - 1))]

\* one turn of the loop of generate_requests: the requests the entry adds (none
\* when it is skipped), or the exception that ends the call
entry_requests(buoy_cam, output_dir, hours_in_past) ==
    IF "id" \notin DOMAIN buoy_cam \/ "name" \notin DOMAIN buoy_cam \/ "img" \notin DOMAIN buoy_cam
    THEN Return(<<>>)
    ELSE IF buoy_cam.id.json = "null" THEN Return(<<>>)
    ELSE IF buoy_cam.img.json = "null" THEN Return(<<>>)
    ELSE LET img_filename == buoy_cam.img.s
             station_tag == str_split(img_filename, "_")[1]
             img_datetime_string == extract_date_string(img_filename)
         IN  IF img_datetime_string.tag = "none" THEN Return(<<>>)
             ELSE LET latest_img_date == date_string_to_date(img_datetime_string.val)
                  IN  IF latest_img_date.tag = "raise" THEN latest_img_date
                      ELSE IF latest_img_date.tag = "none" THEN Return(<<>>)
                      ELSE LET dates == image_dates(latest_img_date.val, hours_in_past)
                               bad == {k \in DOMAIN dates : dates[k].tag = "raise"}
                           IN  IF bad # {} THEN dates[MinOf(bad)]
                               ELSE Return([k \in DOMAIN dates |->
                                        BuoyImageRequest(buoy_cam.id.s, station_tag,
                                            buoy_cam.name, dates[k].val, output_dir)])

RECURSIVE generate_loop(_, _, _, _)
generate_loop(buoy_cam_list_, output_dir, hours_in_past, acc) ==
    IF buoy_cam_list_ = <<>> THEN Return(acc)
    ELSE LET r == entry_requests(Head(buoy_cam_list_), output_dir, hours_in_past)
         IN  IF r.tag = "raise" THEN r
             ELSE generate_loop(Tail(buoy_cam_list_), output_dir, hours_in_past,
                                acc \o r.val)

generate_requests(buoy_cam_list_, output_dir, hours_in_past) ==
    generate_loop(buoy_cam_list_, output_dir, hours_in_past, <<>>)

----------------------------------------------------------------------------
(* Idle values of the variables a specification does not use *)

Free == <<>>

IdleMain ==
    /\ mainpc = "idle" /\ mainExc = "none" /\ buoy_cam_list = <<>> /\ hours = 0
    /\ obsTasks = <<>> /\ buoy_data_lookup = <<>> /\ image_requests = <<>>
    /\ filtered_requests = <<>>
    /\ imgTasks = <<>> /\ results = {} /\ lock = Free

IdleGate ==
    /\ now = 0 /\ gRemaining = 0 /\ gHolder = FALSE /\ gWake = 0
    /\ gPassTimes = <<>> /\ gPassed = 0 /\ gSlack = 0

IdleCall == callIn = [fn |-> "none"] /\ callOut = Pending

\* an output tree with nothing in it yet
EmptyDisk == dirs = {} /\ files = <<>> /\ writes = {} /\ calls = {}

----------------------------------------------------------------------------
(* SpecTable: extract_table_data and get_observation_data on drawn responses *)

\* the pieces joined by the character c
RECURSIVE JoinWith(_, _)
JoinWith(pieces, c) ==
    IF pieces = <<>> THEN <<>>
    ELSE IF Len(pieces) = 1 THEN pieces[1]
    ELSE pieces[1] \o <<c>> \o JoinWith(Tail(pieces), c)

TableLine(tokens) == JoinWith(tokens, " ")
TableText(lines) == JoinWith(lines, "\n")

T_2024 == <<"2", "0", "2", "4">>
T_24 == <<"2", "4">>
T_00 == <<"0", "0">>
T_01 == <<"0", "1">>
T_11 == <<"1", "1">>
T_12 == <<"1", "2">>
T_50 == <<"5", "0">>
T_180 == <<"1", "8", "0">>
T_5 == <<"5">>
T_5p1 == <<"5", ".", "1">>
T_x == <<"x">>

\* "#YY MM DD hh mm WDIR WSPD", and the same without the mm column
HeaderLine == <<"#">> \o TableLine(<<K_YY, K_MM, K_DD, K_hh, K_mm, K_WDIR, K_WSPD>>)
HeaderLineNoMinute == <<"#">> \o TableLine(<<K_YY, K_MM, K_DD, K_hh, K_WDIR, K_WSPD>>)
UnitsLine == <<"#">> \o TableLine(<<<<"y", "r">>, <<"m", "o">>, <<"d", "y">>, <<"h", "r">>,
                                     <<"m", "n">>, <<"d", "e", "g", "T">>, <<"m", "/", "s">>>>)

Row_1200 == TableLine(<<T_2024, T_01, T_01, T_12, T_00, T_180, T_5>>)
Row_1150 == TableLine(<<T_2024, T_01, T_01, T_11, T_50, MISSING_DATA_INDICATOR, T_5p1>>)
Row_1200_again == TableLine(<<T_2024, T_01, T_01, T_12, T_00, T_180, T_5p1>>)
Row_short == TableLine(<<T_2024, T_01, T_01, T_12>>)
Row_two_digit_year == TableLine(<<T_24, T_01, T_01, T_12, T_00, T_180, T_5>>)
Row_year_missing == TableLine(<<MISSING_DATA_INDICATOR, T_01, T_01, T_12, T_00, T_180, T_5>>)
Row_bad_float == TableLine(<<T_2024, T_01, T_01, T_11, T_50, T_x, T_5>>)
Row_blank == <<" ">>

TableRows == {Row_1200, Row_1150, Row_1200_again, Row_short, Row_two_digit_year,
              Row_year_missing, Row_bad_float, Row_blank}

MaxRows == 2

RECURSIVE SeqsUpTo(_, _)
SeqsUpTo(S, n) ==
    IF n = 0 THEN {<<>>}
    ELSE LET shorter == SeqsUpTo(S, n - 1)
         IN  shorter \cup {Append(q, x) : q \in shorter, x \in S}

\* the bodies: no line at all, the two leading lines alone, and tables of up to
\* MaxRows rows with and without a final newline
TableBodies ==
    {<<>>, TableText(<<HeaderLine, UnitsLine>>)}
    \cup {TableText(<<h, UnitsLine>> \o rows \o tail) :
            h \in {HeaderLine, HeaderLineNoMinute},
            rows \in SeqsUpTo(TableRows, MaxRows),
            tail \in {<<>>, <<<<>>>>}}

TableResponses ==
    {HttpRaise("Timeout"), HttpRaise("ConnectionError")}
    \cup {HttpReply(404, <<>>)}
    \cup {HttpReply(200, b) : b \in TableBodies}

InitTable ==
    /\ IdleMain /\ IdleGate /\ EmptyDisk
    /\ callIn \in [fn : {"extract_table_data", "get_observation_data"},
                   station_id : {"41001"}, response : TableResponses]
    /\ callOut = Pending

CallExtractTableData ==
    /\ callIn.fn = "extract_table_data" /\ callOut = Pending
    /\ callOut' = extract_table_data(callIn.response)
    /\ UNCHANGED <<callIn, mainVars, gateVars, diskVars>>

CallGetObservationData ==
    /\ callIn.fn = "get_observation_data" /\ callOut = Pending
    /\ callOut' = get_observation_data(callIn.station_id, callIn.response)
    /\ UNCHANGED <<callIn, mainVars, gateVars, diskVars>>

NextTable == CallExtractTableData \/ CallGetObservationData

SpecTable == InitTable /\ [][NextTable]_vars

\* the token lists of the data rows of a body, the rows with no token left out
DataRows(body) ==
    LET lines == str_split(body, "\n")
        tokens == [i \in 1..(Len(lines) - 2) |-> str_split_ws(lines[i + 2])]
    IN  SelectSeq(tokens, LAMBDA v : v # <<>>)

HeaderOf(body) == str_split_ws(str_from(str_split(body, "\n")[1], 1))

IsTable(response) ==
    /\ response.exc = "none"
    /\ response.status_code = 200
    /\ Len(str_split(response.body, "\n")) >= 3

\* C9: in extract_table_data a data row with fewer tokens than the header is not
\* an error: the call returns one record per row that has a token, each holding
\* exactly the leading columns that have a value, by position.
C9_ShortRowIsNoError ==
    (callIn.fn = "extract_table_data" /\ callOut # Pending /\ IsTable(callIn.response)) =>
        LET header == HeaderOf(callIn.response.body)
            rows == DataRows(callIn.response.body)
        IN  /\ callOut.tag = "return"
            /\ Len(callOut.val) = Len(rows)
            /\ \A k \in DOMAIN rows :
                LET n == IF Len(rows[k]) < Len(header) THEN Len(rows[k]) ELSE Len(header)
                IN  /\ DOMAIN callOut.val[k] = {header[i] : i \in 1..n}
                    /\ \A i \in 1..n : callOut.val[k][header[i]] = rows[k][i]

\* YYYY_MM_DD_HHMM: 4, 2, 2 and 4 digits
WellFormedKey(k) ==
    /\ Len(k) = 15
    /\ \A i \in 1..15 : IF i \in {5, 8, 11} THEN k[i] = "_" ELSE IsDigit(k[i])

\* C10: every key of the observations map that get_observation_data returns is a
\* well-formed YYYY_MM_DD_HHMM string: a row with a missing or malformed
\* YY/MM/DD/hh/mm component is dropped, never stored.
C10_KeysWellFormed ==
    (callIn.fn = "get_observation_data" /\ callOut.tag = "return") =>
        \A k \in obs_keys(callOut.val) : WellFormedKey(k)

----------------------------------------------------------------------------
(* SpecGen: generate_requests on drawn directory listings *)

T_0000 == <<"0", "0", "0", "0">>
T_0010 == <<"0", "0", "1", "0">>
T_0x == <<"0", "x">>
T_02 == <<"0", "2">>
T_03 == <<"0", "3">>
T_13 == <<"1", "3">>
T_30 == <<"3", "0">>
T_1200 == <<"1", "2", "0", "0">>
T_120 == <<"1", "2", "0">>
T_1260 == <<"1", "2", "6", "0">>
T_2400 == <<"2", "4", "0", "0">>
T_2023 == <<"2", "0", "2", "3">>
Tag_Z14A == <<"Z", "1", "4", "A">>
Tag_W02A == <<"W", "0", "2", "A">>

DateText(y, m, d, hm) == y \o <<"_">> \o m \o <<"_">> \o d \o <<"_">> \o hm

GoodDateTexts ==
    {DateText(T_2024, T_01, T_01, T_1200), DateText(T_2024, T_03, T_01, T_0010),
     DateText(T_2023, T_03, T_01, T_0000), DateText(T_2024, T_01, T_01, T_0000)}

BadDateTexts ==
    {DateText(T_2024, T_13, T_01, T_1200), DateText(T_2024, T_02, T_30, T_1200),
     DateText(T_2024, T_01, T_01, T_2400), DateText(T_2024, T_01, T_01, T_1260),
     DateText(T_2024, T_0x, T_01, T_1200), DateText(T_2024, T_01, T_01, T_120),
     DateText(T_0000, T_01, T_01, T_1200)}

ImageFilenames ==
    {Tag_Z14A \o <<"_">> \o d \o DotJpg : d \in GoodDateTexts \cup BadDateTexts}
    \cup {Tag_Z14A \o <<"_">> \o DateText(T_2024, T_01, T_01, T_1200) \o <<".", "p", "n", "g">>,
          Tag_Z14A \o DotJpg,
          <<"2", "0", "2", "4", "x", "0", "1", "x", "0", "1", "x", "1", "2", "0", "0">> \o DotJpg}

\* the entries of a listing for the station id: complete ones, and ones with a
\* field missing or null
ListingEntries(id) ==
    {[id |-> JStr(id), name |-> JStr("Station " \o id), img |-> JStr(f)] : f \in ImageFilenames}
    \cup {[name |-> JStr("Station " \o id),
           img |-> JStr(Tag_Z14A \o <<"_">> \o DateText(T_2024, T_01, T_01, T_1200) \o DotJpg)],
          [id |-> JStr(id),
           img |-> JStr(Tag_Z14A \o <<"_">> \o DateText(T_2024, T_01, T_01, T_1200) \o DotJpg)],
          [id |-> JStr(id), name |-> JStr("Station " \o id)],
          [id |-> JStr(id), name |-> JStr("Station " \o id), img |-> JNull],
          [id |-> JNull, name |-> JStr("Station " \o id),
           img |-> JStr(Tag_Z14A \o <<"_">> \o DateText(T_2024, T_01, T_01, T_1200) \o DotJpg)]}

GenListings ==
    {<<a>> : a \in ListingEntries("41001")}
    \cup {<<a, b>> : a \in ListingEntries("41001"), b \in ListingEntries("46025")}

MaxHours == 2

InitGen ==
    /\ IdleMain /\ IdleGate /\ EmptyDisk
    /\ callIn \in [fn : {"generate_requests"}, buoy_cam_list : GenListings,
                   output_dir : {"images"}, hours : 0..MaxHours]
    /\ callOut = Pending

CallGenerateRequests ==
    /\ callIn.fn = "generate_requests" /\ callOut = Pending
    /\ callOut' = generate_requests(callIn.buoy_cam_list, callIn.output_dir, callIn.hours)
    /\ UNCHANGED <<callIn, mainVars, gateVars, diskVars>>

NextGen == CallGenerateRequests

SpecGen == InitGen /\ [][NextGen]_vars

\* a YYYY_MM_DD_HHMM string that names a date
ValidDateText(ds) ==
    /\ WellFormedKey(ds)
    /\ LET y == DigitsVal(SubSeq(ds, 1, 4))
           m == DigitsVal(SubSeq(ds, 6, 7))
           d == DigitsVal(SubSeq(ds, 9, 10))
       IN  /\ y >= 1 /\ m \in 1..12 /\ d >= 1 /\ d <= DaysInMonth(y, m)
           /\ DigitsVal(SubSeq(ds, 12, 13)) <= 23
           /\ DigitsVal(SubSeq(ds, 14, 15)) <= 59

\* <tag>_<YYYY_MM_DD_HHMM>.jpg
ValidFilename(f) ==
    /\ Len(f) >= 20
    /\ SubSeq(f, Len(f) - 3, Len(f)) = DotJpg
    /\ f[Len(f) - 19] = "_"
    /\ "_" \notin Range(SubSeq(f, 1, Len(f) - 20))
    /\ ValidDateText(SubSeq(f, Len(f) - 18, Len(f) - 4))

ValidEntry(e) ==
    /\ {"id", "name", "img"} \subseteq DOMAIN e
    /\ e.id.json = "str" /\ e.img.json = "str"
    /\ ValidFilename(e.img.s)

\* the minutes from 0001-01-01 00:00 to a date
MinutesOf(date) == ymd2ord(date.year, date.month, date.day) * 1440 + date.hour * 60 + date.minute

IsDate(date) ==
    /\ date.year >= 1 /\ date.month \in 1..12
    /\ date.day >= 1 /\ date.day <= DaysInMonth(date.year, date.month)
    /\ date.hour \in 0..23 /\ date.minute \in 0..59

\* the timestamp T that a valid filename carries, in minutes
FilenameMinutes(f) ==
    LET ds == SubSeq(f, Len(f) - 18, Len(f) - 4)
    IN  ymd2ord(DigitsVal(SubSeq(ds, 1, 4)), DigitsVal(SubSeq(ds, 6, 7)),
                DigitsVal(SubSeq(ds, 9, 10))) * 1440
            + DigitsVal(SubSeq(ds, 12, 13)) * 60 + DigitsVal(SubSeq(ds, 14, 15))

\* the requests of a returned list made for the k-th entry of the listing (the
\* entries of a drawn listing have different ids)
RequestsOf(k) ==
    IF "id" \in DOMAIN callIn.buoy_cam_list[k] /\ callIn.buoy_cam_list[k].id.json = "str"
    THEN SelectSeq(callOut.val, LAMBDA r : r.id = callIn.buoy_cam_list[k].id.s)
    ELSE <<>>

GenCalled == callIn.fn = "generate_requests" /\ callOut # Pending

\* C7: generate_requests skips, without raising, every listing entry that fails
\* validation (a missing id, name or image filename, or a filename that is not
\* <tag>_<YYYY_MM_DD_HHMM>.jpg with a date in range), and the valid entries of
\* the same listing still get their requests.
C7_InvalidEntriesSkipped ==
    GenCalled =>
        /\ callOut.tag = "return"
        /\ \A k \in DOMAIN callIn.buoy_cam_list :
            Len(RequestsOf(k)) =
                IF ValidEntry(callIn.buoy_cam_list[k]) THEN 6 * callIn.hours ELSE 0

\* C8: for a listing of valid entries and a window of W hours, generate_requests
\* returns exactly 6*W requests for each entry, the first with the timestamp T of
\* the entry's filename and each next one 10 minutes before the previous one.
C8_SixPerHourTenMinutesApart ==
    (GenCalled /\ \A k \in DOMAIN callIn.buoy_cam_list : ValidEntry(callIn.buoy_cam_list[k])) =>
        /\ callOut.tag = "return"
        /\ Len(callOut.val) = 6 * callIn.hours * Len(callIn.buoy_cam_list)
        /\ \A k \in DOMAIN callIn.buoy_cam_list :
            LET reqs == RequestsOf(k)
                T == FilenameMinutes(callIn.buoy_cam_list[k].img.s)
            IN  /\ Len(reqs) = 6 * callIn.hours
                /\ \A i \in DOMAIN reqs :
                    /\ IsDate(reqs[i].date)
                    /\ MinutesOf(reqs[i].date) = T - 10 * (i - 1)
                    /\ i > 1 => MinutesOf(reqs[i].date) = MinutesOf(reqs[i - 1].date) - 10

\* a call on two valid entries and a window of at least an hour, where the
\* requests of the first entry reach back into the day before T
C8_Witness ==
    /\ GenCalled /\ callIn.hours >= 1 /\ Len(callIn.buoy_cam_list) = 2
    /\ \A k \in DOMAIN callIn.buoy_cam_list : ValidEntry(callIn.buoy_cam_list[k])
    /\ callOut.tag = "return"
    /\ Len(RequestsOf(1)) = 6 * callIn.hours
    /\ RequestsOf(1)[Len(RequestsOf(1))].date.day # RequestsOf(1)[1].date.day

----------------------------------------------------------------------------
(* SpecGate: the rate limiter gate under a clock                            *)
(*     with request_rate_limit_lock:                                        *)
(*         time.sleep(1 / MAX_REQUESTS_PER_SECOND)                          *)
(* One tick of the clock is 1/MAX_REQUESTS_PER_SECOND s, the length of the  *)
(* sleep. The workers are alike at the gate, so the state keeps how many    *)
(* have still to pass, not which. time.sleep may return late, and a worker  *)
(* may reach the gate late: gSlack counts the ticks so spent.               *)

MAX_REQUESTS_PER_SECOND == 30
TicksPerSecond == MAX_REQUESTS_PER_SECOND
SleepTicks == TicksPerSecond \div MAX_REQUESTS_PER_SECOND

NumGateTasks == 32
MaxTime == 33
MaxSlack == 2

\* as sleep_until, with the sleep left out
sleep_until_no_sleep(t) == t

\* the earliest time at which time.sleep(1 / MAX_REQUESTS_PER_SECOND), started
\* at t, returns
sleep_until(t) == t + SleepTicks

InitGate ==
    /\ IdleMain /\ IdleCall /\ EmptyDisk
    /\ now = 0 /\ gRemaining = NumGateTasks /\ gHolder = FALSE /\ gWake = 0
    /\ gPassTimes = <<>> /\ gPassed = 0 /\ gSlack = 0

\* a worker enters the with block and starts its sleep
GateAcquire ==
    /\ gRemaining > 0 /\ ~gHolder
    /\ gHolder' = TRUE
    /\ gWake' = sleep_until(now)
    /\ UNCHANGED <<now, gRemaining, gPassTimes, gPassed, gSlack, mainVars, callVars, diskVars>>

\* its sleep over, the worker leaves the with block: it has passed the gate
GateRelease ==
    /\ gHolder /\ now >= gWake
    /\ gHolder' = FALSE
    /\ gRemaining' = gRemaining - 1
    /\ gPassed' = gPassed + 1
    /\ gPassTimes' = Append(gPassTimes, now)
    /\ UNCHANGED <<now, gWake, gSlack, mainVars, callVars, diskVars>>

\* the passes later than a second before t
InLastSecond(times, t) == SelectSeq(times, LAMBDA p : p > t - TicksPerSecond)

\* time passes; a tick that no sleep needs (the gate is idle, or the holder's
\* sleep is over) is slack
Tick ==
    /\ now < MaxTime
    /\ IF gHolder /\ now < gWake THEN UNCHANGED gSlack
       ELSE gSlack < MaxSlack /\ gSlack' = gSlack + 1
    /\ now' = now + 1
    /\ gPassTimes' = InLastSecond(gPassTimes, now + 1)
    /\ UNCHANGED <<gRemaining, gHolder, gWake, gPassed, mainVars, callVars, diskVars>>

NextGate == GateAcquire \/ GateRelease \/ Tick

SpecGate == InitGate /\ [][NextGate]_vars

\* C1: whatever the number of workers and the interleaving, at most
\* MAX_REQUESTS_PER_SECOND of them pass the gate in any window of one second
\* (here the second that ends now; every window is the last second of some state).
C1_AtMostMaxPassesPerSecond ==
    Len(InLastSecond(gPassTimes, now)) <= MAX_REQUESTS_PER_SECOND

\* more workers than the ceiling have passed, and the last second is full
C1_Witness ==
    /\ gPassed > MAX_REQUESTS_PER_SECOND
    /\ Len(InLastSecond(gPassTimes, now)) = MAX_REQUESTS_PER_SECOND
    /\ gRemaining > 0

----------------------------------------------------------------------------
(* The image task: get_image_file and fetch_and_process_image *)

BUOYCAM_IMAGE_ROW_LENGTH == 6
IMAGE_WIDTH == 2880
IMAGE_HEIGHT == 300
SUB_IMAGE_WIDTH == 480
SUB_IMAGE_HEIGHT == 270

\* 0.85, as a fraction
FRACTION_BLACK_THRESHOLD == [num |-> 85, den |-> 100]

\* the body of an image reply: bytes PIL cannot open, or an image. Of an image
\* the model keeps its size, for each of the six crops of split_image the number
\* of its pixels whose luminance is 0, and what the OCR reads in the crop of the
\* heading (None, or an angle)
NotAnImage == [decodable |-> FALSE]
Composite(width, height, black, heading) ==
    [decodable |-> TRUE, width |-> width, height |-> height, black |-> black,
     heading |-> heading]
ImageOf(width, height) == Composite(width, height, <<0, 0, 0, 0, 0, 0>>, ReturnNone)

get_image_file(response) ==
    IF response.exc # "none" THEN Raise(response.exc)
    ELSE IF response.status_code # 200 THEN ReturnNone
    ELSE IF ~response.body.decodable THEN Raise("UnidentifiedImageError")
    ELSE Return(response.body)

\* split_image: crop i of the composite image, i = 0..5 (here 1..6)
split_image(img) ==
    [i \in 1..BUOYCAM_IMAGE_ROW_LENGTH |->
        [width |-> SUB_IMAGE_WIDTH, height |-> SUB_IMAGE_HEIGHT, black |-> img.black[i]]]

\* fraction_black: count_nonzero(img_array == 0) / len(img_array). The quotient
\* of two integers is rounded to the nearest double, as the literal 0.85 is, and
\* two fractions over 480 * 270 pixels that differ are further apart than that
\* rounding: comparing the doubles is comparing the fractions.
fraction_black(img) == [num |-> img.black, den |-> img.width * img.height]

\* as mostly_black, but with the threshold itself counted as mostly black
mostly_black_or_at_threshold(fraction_black_value) ==
    fraction_black_value.num * FRACTION_BLACK_THRESHOLD.den
        >= FRACTION_BLACK_THRESHOLD.num * fraction_black_value.den

\* line 443: fraction_black_value > FRACTION_BLACK_THRESHOLD
mostly_black(fraction_black_value) ==
    fraction_black_value.num * FRACTION_BLACK_THRESHOLD.den
        > FRACTION_BLACK_THRESHOLD.num * fraction_black_value.den

\* get_angle_from_image: the OCR's reading of the heading's crop
get_angle_from_image(img, ocr_reader) == img.heading

\* as valid_dimensions, but with the width checked only
valid_dimensions_width_only(img) == img.width = IMAGE_WIDTH

\* line 422, negated
valid_dimensions(img) == img.width = IMAGE_WIDTH /\ img.height = IMAGE_HEIGHT

\* lines 121-125: the paths, joined with "/" as the f-strings join them
save_directory(request) ==
    request.output_root_dir \o "/" \o request.id \o "/" \o str_of(date_string(request))

image_name(request) == request.tag \o <<"_">> \o date_string(request)

save_image_full_path(request, postfix) ==
    save_directory(request) \o "/" \o str_of(image_name(request))
        \o (IF postfix = "" THEN "" ELSE "_" \o postfix) \o ".jpg"

observation_path(request) == save_directory(request) \o "/observation.txt"

\* os.makedirs(request.save_directory()): the directory and those above it
makedirs(request) ==
    {request.output_root_dir, request.output_root_dir \o "/" \o request.id,
     save_directory(request)}

\* get_observation_str_for_file: the lines of the file, as (key, value) pairs in
\* the order they are written; the key of the wave height carries a colon
get_observation_str_for_file(station_id, description, lat_deg, lon_deg, observation, angle) ==
    << <<"id", station_id>>, <<"description", description>>,
       <<"timestamp", observation.timestamp>>, <<"lat_deg", lat_deg>>,
       <<"lon_deg", lon_deg>>, <<"first_image_bearing_deg", angle>> >>
    \o [i \in DOMAIN ObservationFields |->
            <<IF ObservationFields[i].name = "wave_height_m" THEN "wave_height_m:"
              ELSE ObservationFields[i].name,
              observation.fields[i]>>]

\* what a call has done to the output tree, and the collaborators it has called
Effects(out, disk, written, called) ==
    [out |-> out, dirs |-> disk.dirs, files |-> disk.files, written |-> written,
     called |-> called]

\* lines 413-424: the fetch and the check of the size. The outcome is an
\* exception, False, or the image to go on with
fetch_image(request, response) ==
    LET img == get_image_file(response)
    IN  IF img.tag = "raise" THEN img
        ELSE IF img.tag = "none" THEN Return(FALSE)
        ELSE IF ~valid_dimensions(img.val) THEN Return(FALSE)
        ELSE [tag |-> "image", img |-> img.val]

\* lines 427-472, given what os.path.exists answered at line 431 (seen) and the
\* output tree at the time of os.makedirs and after (disk)
store_image(request, buoy_data, ocr_reader, img, seen, disk) ==
    LET sub_images == split_image(img)
        kept == {i \in DOMAIN sub_images : ~mostly_black(fraction_black(sub_images[i]))}
        images == [p \in {save_image_full_path(request, "full")}
                          \cup {save_image_full_path(request, str_of(NatDigits(i - 1))) :
                                    i \in kept}
                    |-> [kind |-> "jpg"]]
        called == {"split_image"} \cup (IF ocr_reader # "None" THEN {"get_angle_from_image"}
                                        ELSE {})
        bearing_of_first_image ==
            IF ocr_reader # "None" THEN get_angle_from_image(img, ocr_reader) ELSE ReturnNone
        found == has_observation(buoy_data, date_string(request))
        observation == get_observation(buoy_data, date_string(request))
        saved == [dirs |-> disk.dirs \cup makedirs(request),
                  files |-> [p \in DOMAIN disk.files \cup DOMAIN images |->
                                IF p \in DOMAIN images THEN images[p] ELSE disk.files[p]]]
    IN  IF ~seen /\ save_directory(request) \in disk.dirs
        THEN Effects(Raise("FileExistsError"), disk, {}, {"split_image"})
        ELSE IF ~found THEN Effects(Return(TRUE), saved, DOMAIN images, called)
        ELSE IF observation.tag = "raise"
        THEN Effects(observation, saved, DOMAIN images, called)
        ELSE IF observation.tag = "none"
        THEN Effects(Raise("AttributeError"), saved, DOMAIN images, called)
        ELSE Effects(Return(TRUE),
                     [saved EXCEPT !.files = dict_set(@, observation_path(request),
                        [kind |-> "txt",
                         lines |-> get_observation_str_for_file(request.id,
                             buoy_data.description, buoy_data.lat_deg, buoy_data.lon_deg,
                             observation.val, bearing_of_first_image)])],
                     DOMAIN images \cup {observation_path(request)}, called)

\* fetch_and_process_image after the gate, run in one piece
fetch_and_process_image(request, buoy_data, output_dir, ocr_reader, response, disk) ==
    LET fetched == fetch_image(request, response)
    IN  IF fetched.tag # "image" THEN Effects(fetched, disk, {}, {})
        ELSE store_image(request, buoy_data, ocr_reader, fetched.img,
                         save_directory(request) \in disk.dirs, disk)

\* the output tree takes the effects of a call made by task who
Apply(who, effects) ==
    /\ dirs' = effects.dirs
    /\ files' = effects.files
    /\ writes' = writes \cup {<<who, p>> : p \in effects.written}
    /\ calls' = calls \cup {<<who, c>> : c \in effects.called}

----------------------------------------------------------------------------
(* Spec: main, its two phases and their worker tasks *)

Img_1200 == Tag_Z14A \o <<"_">> \o DateText(T_2024, T_01, T_01, T_1200) \o DotJpg
Img_bad_month == Tag_W02A \o <<"_">> \o DateText(T_2024, T_13, T_01, T_1200) \o DotJpg

\* a buoy with an image, one without, an entry with no id, and a buoy whose
\* image filename carries month 13
Buoy_A == [id |-> JStr("41001"), name |-> JStr("EAST"), img |-> JStr(Img_1200),
           lat |-> JNum(347, 1), lng |-> JNum(-726, 1)]
Buoy_B == [id |-> JStr("46025"), name |-> JStr("WEST"), img |-> JNull]
Buoy_N == [name |-> JStr("NOID"), img |-> JStr(Img_1200)]
Buoy_M == [id |-> JStr("46025"), name |-> JStr("WEST"), img |-> JStr(Img_bad_month)]

\* the runs: a listing and args.hours
MainScenarios ==
    {[listing |-> <<Buoy_A, Buoy_B>>, hours |-> 1],
     [listing |-> <<Buoy_A, Buoy_B>>, hours |-> 0],
     [listing |-> <<Buoy_A>>, hours |-> 0],
     [listing |-> <<Buoy_N, Buoy_A>>, hours |-> 0],
     [listing |-> <<Buoy_A, Buoy_M>>, hours |-> 1]}

\* the replies to an observation fetch: not found, a timeout, no body at all,
\* and a table of two rows
MainObsResponses ==
    {HttpReply(404, <<>>), HttpRaise("Timeout"), HttpReply(200, <<>>),
     HttpReply(200, TableText(<<HeaderLine, UnitsLine, Row_1200, Row_1150, <<>>>>))}

\* the replies to an image fetch: a composite image taken at night, with one
\* crop that is not black and a heading of 90 degrees, and a timeout
NightImage ==
    LET all == SUB_IMAGE_WIDTH * SUB_IMAGE_HEIGHT
    IN  Composite(IMAGE_WIDTH, IMAGE_HEIGHT, <<0, all, all, all, all, all>>, Return(90))

MainImageResponses == {HttpReply(200, NightImage), HttpRaise("Timeout")}

Init ==
    /\ IdleGate /\ IdleCall /\ EmptyDisk
    /\ mainpc = "obs_submit" /\ mainExc = "none"
    /\ \E s \in MainScenarios : buoy_cam_list = s.listing /\ hours = s.hours
    /\ obsTasks = <<>> /\ buoy_data_lookup = <<>>
    /\ image_requests = <<>> /\ filtered_requests = <<>>
    /\ imgTasks = <<>> /\ results = {} /\ lock = Free

\* a submitted task: where it is, the reply it got, its outcome, and how often it
\* has passed the gate and sent a request
NewTask == [pc |-> "gate", fetched |-> Pending, result |-> Pending, passes |-> 0, sent |-> 0]

TaskEnded(task) == task.pc \in {"done", "joined"}

\* float(v) of a listing value
float_of_json(v) ==
    CASE v.json = "num" -> Return([mant |-> v.mant, scale |-> v.scale])
      [] v.json = "str" -> py_float(v.s)
      [] OTHER -> Raise("TypeError")

\* lines 555-558: one get_observation_data task for every entry with an id
MainSubmitObservations ==
    /\ mainpc = "obs_submit"
    /\ obsTasks' = [i \in {k \in DOMAIN buoy_cam_list : "id" \in DOMAIN buoy_cam_list[k]} |-> NewTask]
    /\ mainpc' = "obs_join"
    /\ UNCHANGED <<mainExc, buoy_cam_list, hours, buoy_data_lookup, image_requests,
                   filtered_requests, imgTasks, results, lock, gateVars, callVars, diskVars>>

----------------------------------------------------------------------------
(* A worker's steps, the same for both kinds of task *)

Tasks(kind) == IF kind = "obs" THEN obsTasks ELSE imgTasks

SetTask(kind, t, task) ==
    IF kind = "obs"
    THEN obsTasks' = [obsTasks EXCEPT ![t] = task] /\ UNCHANGED imgTasks
    ELSE imgTasks' = [imgTasks EXCEPT ![t] = task] /\ UNCHANGED obsTasks

\* with request_rate_limit_lock: the lock is taken, the sleep starts
TaskAcquire(kind, t) ==
    /\ Tasks(kind)[t].pc = "gate" /\ lock = Free
    /\ lock' = <<kind, t>>
    /\ SetTask(kind, t, [Tasks(kind)[t] EXCEPT !.pc = "sleeping"])
    /\ UNCHANGED <<mainpc, mainExc, buoy_cam_list, hours, buoy_data_lookup, image_requests,
                   filtered_requests, results, gateVars, callVars, diskVars>>

\* as TaskRelease, but with the request made inside the with block: the task
\* goes on to its request with the lock still held
TaskRelease_holding_lock(kind, t) ==
    /\ Tasks(kind)[t].pc = "sleeping" /\ lock = <<kind, t>>
    /\ SetTask(kind, t, [Tasks(kind)[t] EXCEPT !.pc = "request", !.passes = @ + 1])
    /\ UNCHANGED <<mainpc, mainExc, buoy_cam_list, hours, buoy_data_lookup, image_requests,
                   filtered_requests, results, lock, gateVars, callVars, diskVars>>

\* the sleep is over and the with block is left: the lock is released. From
\* here to the end of its fetch step the task is at its one network call
TaskRelease(kind, t) ==
    /\ Tasks(kind)[t].pc = "sleeping" /\ lock = <<kind, t>>
    /\ lock' = Free
    /\ SetTask(kind, t, [Tasks(kind)[t] EXCEPT !.pc = "request", !.passes = @ + 1])
    /\ UNCHANGED <<mainpc, mainExc, buoy_cam_list, hours, buoy_data_lookup, image_requests,
                   filtered_requests, results, gateVars, callVars, diskVars>>

\* lines 328-338: the observation table is fetched and parsed, the task ends
ObservationFetch(t, response) ==
    /\ obsTasks[t].pc = "request"
    /\ obsTasks' = [obsTasks EXCEPT ![t] =
            [@ EXCEPT !.pc = "done", !.fetched = response, !.sent = @ + 1,
                      !.result = get_observation_data(buoy_cam_list[t].id.s, response)]]
    /\ UNCHANGED <<mainpc, mainExc, buoy_cam_list, hours, buoy_data_lookup, image_requests,
                   filtered_requests, imgTasks, results, lock, gateVars, callVars, diskVars>>

\* lines 413-472: the image is fetched and processed, the task ends. The
\* requests of one run of MainScenarios have save directories of their own, so
\* no other task acts between os.path.exists and os.makedirs of this one
ImageFetch(t, response) ==
    /\ imgTasks[t].pc = "request"
    /\ LET effects == fetch_and_process_image(filtered_requests[t],
                            buoy_data_lookup[imgTasks[t].buoy_data], imgTasks[t].output_dir,
                            imgTasks[t].ocr_reader, response,
                            [dirs |-> dirs, files |-> files])
       IN  /\ imgTasks' = [imgTasks EXCEPT ![t] =
                    [@ EXCEPT !.pc = "done", !.fetched = response, !.sent = @ + 1,
                              !.result = effects.out]]
           /\ Apply(t, effects)
    /\ UNCHANGED <<mainpc, mainExc, buoy_cam_list, hours, obsTasks, buoy_data_lookup,
                   image_requests, filtered_requests, results, lock, gateVars, callVars>>

----------------------------------------------------------------------------
(* main's own steps *)

\* lines 565-570: the listing's name and position are copied into the store
with_listing_fields(data, buoy) ==
    LET lat == IF "lat" \in DOMAIN buoy THEN float_of_json(buoy.lat) ELSE ReturnNone
        lon == IF "lng" \in DOMAIN buoy THEN float_of_json(buoy.lng) ELSE ReturnNone
    IN  IF lat.tag = "raise" THEN lat
        ELSE IF lon.tag = "raise" THEN lon
        ELSE Return([data EXCEPT
                !.description = IF "name" \in DOMAIN buoy THEN buoy.name ELSE JNull,
                !.lat_deg = lat, !.lon_deg = lon])

\* as ObservationPhaseOver, but content with the tasks having ended
ObservationPhaseOver_unjoined == \A t \in DOMAIN obsTasks : TaskEnded(obsTasks[t])

\* the as_completed loop of phase 1 has handed over every future (line 560)
ObservationPhaseOver == \A t \in DOMAIN obsTasks : obsTasks[t].pc = "joined"

\* lines 560-570: future.result() of a finished task; an exception of the task
\* is raised again here, in main, inside the with block
MainJoinObservation(t) ==
    /\ mainpc = "obs_join"
    /\ obsTasks[t].pc = "done"
    /\ LET result == obsTasks[t].result
           stored == IF result.tag = "return"
                     THEN with_listing_fields(result.val, buoy_cam_list[t])
                     ELSE ReturnNone
       IN  IF result.tag = "raise" \/ stored.tag = "raise"
           THEN /\ mainExc' = (IF result.tag = "raise" THEN result.exc ELSE stored.exc)
                /\ mainpc' = "obs_unwind"
                /\ UNCHANGED <<obsTasks, buoy_data_lookup>>
           ELSE /\ obsTasks' = [obsTasks EXCEPT ![t] = [@ EXCEPT !.pc = "joined", !.fetched = Pending]]
                /\ buoy_data_lookup' =
                        IF result.tag = "return"
                        THEN dict_set(buoy_data_lookup, stored.val.id, stored.val)
                        ELSE buoy_data_lookup
                /\ UNCHANGED <<mainpc, mainExc>>
    /\ UNCHANGED <<buoy_cam_list, hours, image_requests, filtered_requests, imgTasks,
                   results, lock, gateVars, callVars, diskVars>>

\* the end of the first with block (lines 555-572)
MainEndObservations ==
    /\ mainpc = "obs_join"
    /\ ObservationPhaseOver
    /\ mainpc' = "generate"
    /\ UNCHANGED <<mainExc, buoy_cam_list, hours, obsTasks, buoy_data_lookup, image_requests,
                   filtered_requests, imgTasks, results, lock, gateVars, callVars, diskVars>>

\* an exception leaves a with block: ThreadPoolExecutor.__exit__ waits for the
\* tasks still running or queued, then the exception ends main
MainUnwind ==
    /\ \/ mainpc = "obs_unwind" /\ \A t \in DOMAIN obsTasks : TaskEnded(obsTasks[t])
       \/ mainpc = "img_unwind" /\ \A t \in DOMAIN imgTasks : TaskEnded(imgTasks[t])
    /\ mainpc' = "crashed"
    /\ UNCHANGED <<mainExc, buoy_cam_list, hours, obsTasks, buoy_data_lookup, image_requests,
                   filtered_requests, imgTasks, results, lock, gateVars, callVars, diskVars>>

\* lines 576-579
MainGenerate ==
    /\ mainpc = "generate"
    /\ LET r == generate_requests(buoy_cam_list, "images", hours)
       IN  IF r.tag = "raise"
           THEN mainExc' = r.exc /\ mainpc' = "crashed" /\ UNCHANGED image_requests
           ELSE image_requests' = r.val /\ mainpc' = "filter" /\ UNCHANGED mainExc
    /\ UNCHANGED <<buoy_cam_list, hours, obsTasks, buoy_data_lookup, filtered_requests,
                   imgTasks, results, lock, gateVars, callVars, diskVars>>

\* lines 582-589: a request whose id is not in the map is warned about and then
\* looked up all the same (a KeyError); every other request is appended
filter_requests(requests, lookup) ==
    IF \E i \in DOMAIN requests : requests[i].id \notin DOMAIN lookup
    THEN Raise("KeyError")
    ELSE Return(requests)

MainFilter ==
    /\ mainpc = "filter"
    /\ LET r == filter_requests(image_requests, buoy_data_lookup)
       IN  IF r.tag = "raise"
           THEN mainExc' = r.exc /\ mainpc' = "crashed" /\ UNCHANGED filtered_requests
           ELSE filtered_requests' = r.val /\ mainpc' = "img_submit" /\ UNCHANGED mainExc
    /\ UNCHANGED <<buoy_cam_list, hours, obsTasks, buoy_data_lookup, image_requests,
                   imgTasks, results, lock, gateVars, callVars, diskVars>>

\* line 601: executor.submit(fetch_and_process_image, request,
\* buoy_data_lookup[request.id], ocr_reader): the third positional parameter of
\* fetch_and_process_image is output_dir, so ocr_reader keeps its default None.
\* buoy_data is the store's key in buoy_data_lookup (the object is shared);
\* seen is what os.path.exists answered to the task (line 431).
NewImageTask(request) ==
    NewTask @@ [buoy_data |-> request.id, output_dir |-> "OCR", ocr_reader |-> "None",
                seen |-> FALSE]

\* lines 596-602
MainSubmitImages ==
    /\ mainpc = "img_submit"
    /\ imgTasks' = [i \in DOMAIN filtered_requests |-> NewImageTask(filtered_requests[i])]
    /\ mainpc' = "img_join"
    /\ UNCHANGED <<mainExc, buoy_cam_list, hours, obsTasks, buoy_data_lookup, image_requests,
                   filtered_requests, results, lock, gateVars, callVars, diskVars>>

\* lines 604-607
MainJoinImage(t) ==
    /\ mainpc = "img_join"
    /\ imgTasks[t].pc = "done"
    /\ IF imgTasks[t].result.tag = "raise"
       THEN /\ mainExc' = imgTasks[t].result.exc
            /\ mainpc' = "img_unwind"
            /\ UNCHANGED <<imgTasks, results>>
       ELSE /\ imgTasks' = [imgTasks EXCEPT ![t] = [@ EXCEPT !.pc = "joined"]]
            /\ results' = results \cup {<<t, imgTasks[t].result.val>>}
            /\ UNCHANGED <<mainpc, mainExc>>
    /\ UNCHANGED <<buoy_cam_list, hours, obsTasks, buoy_data_lookup, image_requests,
                   filtered_requests, lock, gateVars, callVars, diskVars>>

\* the end of the second with block (lines 596-609)
MainEndImages ==
    /\ mainpc = "img_join"
    /\ \A t \in DOMAIN imgTasks : imgTasks[t].pc = "joined"
    /\ mainpc' = "done"
    /\ UNCHANGED <<mainExc, buoy_cam_list, hours, obsTasks, buoy_data_lookup, image_requests,
                   filtered_requests, imgTasks, results, lock, gateVars, callVars, diskVars>>

WorkerAcquires ==
    \/ \E t \in DOMAIN obsTasks : TaskAcquire("obs", t)
    \/ \E t \in DOMAIN imgTasks : TaskAcquire("img", t)

WorkerReleases ==
    \/ \E t \in DOMAIN obsTasks : TaskRelease("obs", t)
    \/ \E t \in DOMAIN imgTasks : TaskRelease("img", t)

WorkerFetchesObservation ==
    \E t \in DOMAIN obsTasks : \E response \in MainObsResponses : ObservationFetch(t, response)

WorkerFetchesImage ==
    \E t \in DOMAIN imgTasks : \E response \in MainImageResponses : ImageFetch(t, response)

MainJoinsObservation == \E t \in DOMAIN obsTasks : MainJoinObservation(t)

MainJoinsImage == \E t \in DOMAIN imgTasks : MainJoinImage(t)

Next ==
    \/ MainSubmitObservations
    \/ WorkerAcquires
    \/ WorkerReleases
    \/ WorkerFetchesObservation
    \/ MainJoinsObservation
    \/ MainEndObservations
    \/ MainUnwind
    \/ MainGenerate
    \/ MainFilter
    \/ MainSubmitImages
    \/ WorkerFetchesImage
    \/ MainJoinsImage
    \/ MainEndImages

Spec == Init /\ [][Next]_vars

\* a reply that carries no table: a status other than 200, or a body of fewer
\* than three lines (an empty body is one empty line)
NoTable(response) ==
    /\ response.exc = "none"
    /\ response.status_code # 200 \/ Len(str_split(response.body, "\n")) < 3

ImagePhaseBegun == mainpc \in {"img_submit", "img_join", "img_unwind", "done"}

MainEnded == mainpc \in {"done", "crashed"}

\* C2: in either phase, when one task fails (returns failure or raises), every
\* other task of the phase still runs to its end and main joins its result; main
\* never ends with the result of a task that did not raise left unjoined.
C2_TaskFailureIsolated ==
    MainEnded =>
        /\ \A t \in DOMAIN obsTasks :
            obsTasks[t].result.tag # "raise" => obsTasks[t].pc = "joined"
        /\ \A t \in DOMAIN imgTasks :
            imgTasks[t].result.tag # "raise" => imgTasks[t].pc = "joined"

\* C3: an observation fetch that gets a status other than 200, an empty body or
\* a body of fewer than three lines ends with get_observation_data returning no
\* BuoyData, without raising.
C3_NoTableYieldsNoStore ==
    \A t \in DOMAIN obsTasks :
        (obsTasks[t].pc = "done" /\ NoTable(obsTasks[t].fetched)) =>
            obsTasks[t].result.tag = "none"

\* C5: the filtering step of main does not fail, and the requests it hands to
\* the image phase are those of buoys that are in the id -> store map with a
\* store that is not empty.
C5_OnlyBuoysWithObservations ==
    /\ mainExc # "KeyError"
    /\ ImagePhaseBegun =>
        \A i \in DOMAIN filtered_requests :
            /\ filtered_requests[i].id \in DOMAIN buoy_data_lookup
            /\ buoy_data_lookup[filtered_requests[i].id].observations # <<>>

\* C6: no image task exists before every observation task has ended and main
\* has joined its result into buoy_data_lookup, and buoy_data_lookup does not
\* change once the image phase has begun.
C6_ImagePhaseAfterObservationPhase ==
    /\ [](DOMAIN imgTasks # {} => \A t \in DOMAIN obsTasks : obsTasks[t].pc = "joined")
    /\ [][ImagePhaseBegun => buoy_data_lookup' = buoy_data_lookup]_vars

\* an image task has started while the observation phase had two tasks, one of
\* which ended with no store
C6_Witness ==
    /\ \E t \in DOMAIN imgTasks : imgTasks[t].pc # "gate"
    /\ Cardinality(DOMAIN obsTasks) = 2
    /\ \E o \in DOMAIN obsTasks : obsTasks[o].result.tag = "none"

\* the line of observation.txt that carries the bearing
BearingLine(text) ==
    text.lines[CHOOSE i \in DOMAIN text.lines : text.lines[i][1] = "first_image_bearing_deg"]

\* C15: every image task that main submits has the OCR instance of main as its
\* ocr_reader; for every image it processes the extractor is asked for the
\* heading, and the first_image_bearing_deg of its observation.txt is what the
\* extractor read (None only when the extractor read nothing).
C15_TasksGetTheExtractor ==
    \A t \in DOMAIN imgTasks :
        imgTasks[t].result = Return(TRUE) =>
            /\ imgTasks[t].ocr_reader = "OCR"
            /\ <<t, "get_angle_from_image">> \in calls
            /\ observation_path(filtered_requests[t]) \in DOMAIN files =>
                  BearingLine(files[observation_path(filtered_requests[t])])[2]
                        = imgTasks[t].fetched.body.heading

\* C16: every worker task, of either phase, has passed the gate exactly once
\* when it sends its request, sends at most one request and none again after a
\* failure, and does not hold the lock of the gate while its request is in
\* flight (the lock is released before the request is sent).
C16_OnePassThenOneRequest ==
    \A kind \in {"obs", "img"} : \A t \in DOMAIN Tasks(kind) :
        LET task == Tasks(kind)[t]
        IN  /\ task.sent <= 1 /\ task.passes <= 1
            /\ task.sent = 1 => task.passes = 1
            /\ task.pc = "request" => task.passes = 1 /\ task.sent = 0 /\ lock # <<kind, t>>
            /\ task.pc \in {"gate", "sleeping"} => task.passes = 0 /\ task.sent = 0
            /\ task.pc \in {"done", "joined"} => task.sent = 1

\* an image task is at its request while another one sleeps in the gate, an
\* observation task has failed, and an image task has failed: each with one
\* request sent
C16_Witness ==
    /\ \E t, u \in DOMAIN imgTasks :
          /\ imgTasks[t].pc = "request" /\ imgTasks[u].pc = "sleeping" /\ lock = <<"img", u>>
    /\ \E o \in DOMAIN obsTasks : obsTasks[o].result.tag = "none" /\ obsTasks[o].sent = 1
    /\ \E t \in DOMAIN imgTasks : imgTasks[t].result.tag = "raise" /\ imgTasks[t].sent = 1

----------------------------------------------------------------------------
(* SpecImage: fetch_and_process_image on drawn arguments *)

\* composite images whose crops are black to a tenth, to one pixel less than
\* 0.85, to 0.85 exactly, to one pixel more, to 0.90 and not at all
ThresholdImages ==
    LET all == SUB_IMAGE_WIDTH * SUB_IMAGE_HEIGHT
        at == (all * FRACTION_BLACK_THRESHOLD.num) \div FRACTION_BLACK_THRESHOLD.den
    IN  {Composite(IMAGE_WIDTH, IMAGE_HEIGHT,
                   <<all \div 10, at - 1, at, at + 1, (all * 9) \div 10, 0>>, Return(90)),
         Composite(IMAGE_WIDTH, IMAGE_HEIGHT,
                   <<at, (all * 9) \div 10, 0, all, at + 1, at - 1>>, ReturnNone)}

ImageResponses ==
    {HttpRaise("Timeout"), HttpRaise("ConnectionError"), HttpReply(404, NotAnImage),
     HttpReply(200, NotAnImage), HttpReply(200, ImageOf(IMAGE_WIDTH, IMAGE_HEIGHT)),
     HttpReply(200, ImageOf(IMAGE_WIDTH, IMAGE_HEIGHT + 1)),
     HttpReply(200, ImageOf(IMAGE_WIDTH - 1, IMAGE_HEIGHT)),
     HttpReply(200, NightImage)}
    \cup {HttpReply(200, img) : img \in ThresholdImages}
    \cup {HttpReply(200, [img EXCEPT !.height = IMAGE_HEIGHT - 1]) : img \in ThresholdImages}

\* the requests of one hour for Buoy_A, and the stores that the tables of
\* MainObsResponses make for it
ImageCallRequests == Range(generate_requests(<<Buoy_A>>, "images", 1).val)
ImageCallStores ==
    {get_observation_data("41001", r).val :
        r \in {HttpReply(200, TableText(<<HeaderLine, UnitsLine, Row_1200, Row_1150, <<>>>>)),
               HttpReply(200, TableText(<<HeaderLine, UnitsLine, <<>>>>))}}

InitImage ==
    /\ IdleMain /\ IdleGate /\ EmptyDisk
    /\ callIn \in [fn : {"fetch_and_process_image"}, request : ImageCallRequests,
                   buoy_data : ImageCallStores, output_dir : {"OCR", "images"},
                   ocr_reader : {"None", "OCR"}, response : ImageResponses]
    /\ callOut = Pending

CallFetchAndProcessImage ==
    /\ callIn.fn = "fetch_and_process_image" /\ callOut = Pending
    /\ LET effects == fetch_and_process_image(callIn.request, callIn.buoy_data,
                            callIn.output_dir, callIn.ocr_reader, callIn.response,
                            [dirs |-> dirs, files |-> files])
       IN  callOut' = effects.out /\ Apply("call", effects)
    /\ UNCHANGED <<callIn, mainVars, gateVars>>

NextImage == CallFetchAndProcessImage

SpecImage == InitImage /\ [][NextImage]_vars

\* a fetch that fails in an expected way: a status other than 200, a network
\* error or a timeout, or a body that is no image
ExpectedImageFailure(response) ==
    \/ response.exc # "none"
    \/ response.status_code # 200
    \/ ~response.body.decodable

\* C4: fetch_and_process_image never raises for an expected failure of the
\* image fetch: it returns False.
C4_ExpectedFailureReturnsFalse ==
    (callIn.fn = "fetch_and_process_image" /\ callOut # Pending
        /\ ExpectedImageFailure(callIn.response)) => callOut = Return(FALSE)

\* the call has come back
ImageCallDone == callIn.fn = "fetch_and_process_image" /\ callOut # Pending

\* the reply carried an image that PIL opens
GotImage == callIn.response.exc = "none" /\ callIn.response.status_code = 200
                /\ callIn.response.body.decodable

\* the reply carried an image of 2880 x 300: the call got to the lookup
ReachedLookup ==
    /\ ImageCallDone /\ GotImage
    /\ callIn.response.body.width = 2880 /\ callIn.response.body.height = 300

KeyInStore ==
    \E i \in DOMAIN callIn.buoy_data.observations :
        callIn.buoy_data.observations[i].timestamp = strftime(callIn.request.date)

\* C11: when the call reaches the observation lookup, observation.txt is
\* written in the request's save directory if and only if the store holds the
\* request's timestamp key; without the key no observation file is written, the
\* full image saved before is kept, and the call returns True all the same.
C11_ObservationFileIffKey ==
    ReachedLookup =>
        /\ callOut = Return(TRUE)
        /\ observation_path(callIn.request) \in DOMAIN files <=> KeyInStore
        /\ save_image_full_path(callIn.request, "full") \in DOMAIN files
        /\ \A p \in DOMAIN files :
              files[p].kind = "txt" => p = observation_path(callIn.request)

\* a call that reached the lookup and found no key in a store that is not empty
C11_Witness ==
    /\ ReachedLookup /\ ~KeyInStore /\ callIn.buoy_data.observations # <<>>
    /\ save_image_full_path(callIn.request, "full") \in DOMAIN files

\* C13: a composite image that is not exactly 2880 x 300 is rejected before
\* the split and before anything is stored: the call returns False, split_image
\* is not called, and no directory and no file is made.
C13_BadDimensionsRejectedFirst ==
    (ImageCallDone /\ GotImage
        /\ ~(callIn.response.body.width = 2880 /\ callIn.response.body.height = 300)) =>
        /\ callOut = Return(FALSE)
        /\ calls = {} /\ dirs = {} /\ files = <<>> /\ writes = {}

\* a call that got an image of the right width and the wrong height
C13_Witness ==
    /\ ImageCallDone /\ GotImage
    /\ callIn.response.body.width = 2880 /\ callIn.response.body.height # 300

\* sub-image i (0..5) of the call's image is in the output tree
SubImageStored(i) ==
    save_image_full_path(callIn.request, str_of(NatDigits(i))) \in DOMAIN files

\* the black pixels of crop i, times 100, against 85 times all its pixels
BlackTimes100(i) == callIn.response.body.black[i + 1] * 100
AllTimes85 == 480 * 270 * 85

\* C14 as stated: a sub-image is stored under its index only when its fraction
\* of black pixels is below 0.85; above 0.85 and at 0.85 exactly it is left out.
C14_ThresholdExcluded ==
    ReachedLookup => \A i \in 0..5 : SubImageStored(i) <=> BlackTimes100(i) < AllTimes85

\* C14 as amended: a sub-image is left out only when its fraction of black
\* pixels is above 0.85; at 0.85 exactly and below it is stored under its index.
C14_ThresholdIncluded ==
    ReachedLookup => \A i \in 0..5 : SubImageStored(i) <=> BlackTimes100(i) <= AllTimes85

\* a call that stored a sub-image black to 0.85 exactly and left out one that
\* is black to 0.90
C14_Witness ==
    /\ ReachedLookup
    /\ \E i \in 0..5 : BlackTimes100(i) = AllTimes85 /\ SubImageStored(i)
    /\ \E i \in 0..5 : BlackTimes100(i) = 480 * 270 * 90 /\ ~SubImageStored(i)

----------------------------------------------------------------------------
(* SpecImageTasks: two image tasks of one pool, step by step *)

Img_1200_W02A == Tag_W02A \o <<"_">> \o DateText(T_2024, T_01, T_01, T_1200) \o DotJpg

\* a second entry of station 41001 with another camera tag, and another station
Buoy_A2 == [Buoy_A EXCEPT !.img = JStr(Img_1200_W02A)]
Buoy_C == [id |-> JStr("46025"), name |-> JStr("WEST"), img |-> JStr(Img_1200)]

\* the two latest requests that generate_requests makes of each entry, under
\* two output roots
PoolRequests ==
    UNION {{generate_requests(<<b>>, root, 1).val[k] : k \in 1..2} :
                b \in {Buoy_A, Buoy_A2, Buoy_C}, root \in {"images", "out"}}

\* the stores of both stations, from the table of two rows
PoolLookup ==
    [id \in {"41001", "46025"} |->
        get_observation_data(id,
            HttpReply(200, TableText(<<HeaderLine, UnitsLine, Row_1200, Row_1150, <<>>>>))).val]

PoolImageResponses == {HttpReply(200, NightImage), HttpReply(404, NotAnImage)}

InitImageTasks ==
    /\ IdleGate /\ IdleCall /\ EmptyDisk
    /\ mainpc = "idle" /\ mainExc = "none" /\ buoy_cam_list = <<>> /\ hours = 0
    /\ obsTasks = <<>> /\ image_requests = <<>> /\ results = {} /\ lock = Free
    /\ buoy_data_lookup = PoolLookup
    /\ \E r1, r2 \in PoolRequests : r1 # r2 /\ filtered_requests = <<r1, r2>>
    /\ imgTasks = [i \in DOMAIN filtered_requests |-> NewImageTask(filtered_requests[i])]

\* lines 413-431: the fetch, the check of the size, and os.path.exists
ImageFetchBegin(t, response) ==
    /\ imgTasks[t].pc = "request"
    /\ LET fetched == fetch_image(filtered_requests[t], response)
       IN  imgTasks' = [imgTasks EXCEPT ![t] =
                IF fetched.tag = "image"
                THEN [@ EXCEPT !.pc = "exists", !.fetched = response, !.sent = @ + 1,
                               !.seen = save_directory(filtered_requests[t]) \in dirs]
                ELSE [@ EXCEPT !.pc = "done", !.fetched = response, !.sent = @ + 1,
                               !.result = fetched]]
    /\ UNCHANGED <<mainpc, mainExc, buoy_cam_list, hours, obsTasks, buoy_data_lookup,
                   image_requests, filtered_requests, results, lock, gateVars, callVars,
                   diskVars>>

\* lines 432-472: os.makedirs when the directory was not seen, the saves, the
\* observation file, and the return
ImageStore(t) ==
    /\ imgTasks[t].pc = "exists"
    /\ LET effects == store_image(filtered_requests[t],
                            buoy_data_lookup[imgTasks[t].buoy_data], imgTasks[t].ocr_reader,
                            imgTasks[t].fetched.body, imgTasks[t].seen,
                            [dirs |-> dirs, files |-> files])
       IN  /\ imgTasks' = [imgTasks EXCEPT ![t] =
                    [@ EXCEPT !.pc = "done", !.result = effects.out]]
           /\ Apply(t, effects)
    /\ UNCHANGED <<mainpc, mainExc, buoy_cam_list, hours, obsTasks, buoy_data_lookup,
                   image_requests, filtered_requests, results, lock, gateVars, callVars>>

ImageTaskAcquires == \E t \in DOMAIN imgTasks : TaskAcquire("img", t)

ImageTaskReleases == \E t \in DOMAIN imgTasks : TaskRelease("img", t)

ImageTaskFetches ==
    \E t \in DOMAIN imgTasks : \E response \in PoolImageResponses : ImageFetchBegin(t, response)

ImageTaskStores == \E t \in DOMAIN imgTasks : ImageStore(t)

NextImageTasks ==
    \/ ImageTaskAcquires
    \/ ImageTaskReleases
    \/ ImageTaskFetches
    \/ ImageTaskStores

SpecImageTasks == InitImageTasks /\ [][NextImageTasks]_vars

\* two requests differ in station id, station tag, timestamp or output root
RequestsDiffer(r1, r2) ==
    \/ r1.id # r2.id \/ r1.tag # r2.tag \/ r1.date # r2.date
    \/ r1.output_root_dir # r2.output_root_dir

\* C12: of image tasks that run concurrently and whose requests differ in
\* station id, station tag, timestamp or output root, no two write the same
\* path: the full image, the sub-images and observation.txt of a request are
\* written by its own task only.
C12_NoSharedPath ==
    \A w1, w2 \in writes :
        (w1[1] # w2[1] /\ RequestsDiffer(filtered_requests[w1[1]], filtered_requests[w2[1]]))
            => w1[2] # w2[2]

====
